---------------------------- MODULE Spec2Model ----------------------------
(***************************************************************************)
(* IoT sensor data analysis (src/code_1.py): a batch script that loads a   *)
(* table of sensor readings and runs five analyses over it with Spark      *)
(* DataFrame operations.  The model gives the DataFrame operations the     *)
(* script calls their Spark SQL semantics:                                 *)
(*   - a comparison with null is unknown, and when() takes its otherwise   *)
(*     branch unless the condition is true;                                *)
(*   - groupBy makes one group per distinct key value, null included;      *)
(*   - avg is sum/count over the non-null values, null when there are none *)
(*     (kept as an exact reduced fraction <<num, den>>);                   *)
(*   - orderBy fixes the order of rows with different keys only: rows with *)
(*     equal keys, and the rows of a DataFrame that was never ordered,     *)
(*     come out in any order;                                              *)
(*   - to_timestamp gives null for a string that does not match the        *)
(*     pattern.                                                            *)
(***************************************************************************)
EXTENDS Integers, Sequences, FiniteSets, TLC

VARIABLES df, df_filtered, agg_df_sorted, hourly_avg, sensor_ranked,
          top_sensors, pivot_df, pivot_long, max_temp_entry, emitted, pc

vars == <<df, df_filtered, agg_df_sorted, hourly_avg, sensor_ranked,
          top_sensors, pivot_df, pivot_long, max_temp_entry, emitted, pc>>

---------------------------------------------------------------------------
(* Nullable values: NULL is <<>>, a present value v is <<v>>.              *)

NULL == <<>>

Some(v) == <<v>>

Val(o) == o[1]

---------------------------------------------------------------------------
(* Program constants.                                                      *)

LowTemp == 18

HighTemp == 30

NumHours == 24

TopN == 5

(* list(range(0, 24)): the pivot's column values, in order.                *)
PivotValues == [i \in 1..NumHours |-> i - 1]

---------------------------------------------------------------------------
(* Bounds of the input.                                                    *)

MaxRows == 3

NumSensors == 6

(* Timestamp strings, as sequences of characters.                          *)
T00 == <<"2","0","2","4","-","0","1","-","0","1"," ","0","0",":","1","0",":","0","0">>

T23 == <<"2","0","2","4","-","0","1","-","0","2"," ","2","3",":","5","9",":","5","9">>

T24 == <<"2","0","2","4","-","0","1","-","0","1"," ","2","4",":","0","0",":","0","0">>

TSlash == <<"0","1","/","0","1","/","2","0","2","4"," ","0","5",":","0","0">>

(* The location names of the inputs, in ascending string order.            *)
LocationOrder == <<"L1", "L2">>

MkRow(s, l, t, h, ts) ==
    [sensor_id |-> s, location |-> l, temperature |-> t, humidity |-> h,
     timestamp |-> ts]

(* Rows that differ in temperature only, around the range's two bounds.    *)
LabelRows ==
    {MkRow(Some(1), Some("L1"), t, Some(50), T00) :
        t \in {NULL, Some(LowTemp - 1), Some(LowTemp), Some(HighTemp),
               Some(HighTemp + 1)}}

(* Rows over two locations, two sensors, two temperatures and two hours,    *)
(* and rows with a null key, a null value or a timestamp that does not     *)
(* parse.                                                                  *)
GroupRows ==
    {MkRow(Some(1), Some(l), Some(t), Some(50), T00) :
        l \in {"L1", "L2"}, t \in {20, 40}}
    \cup {MkRow(Some(2), Some("L1"), Some(40), Some(50), T23),
          MkRow(NULL, NULL, Some(20), Some(70), T00),
          MkRow(Some(2), Some("L2"), NULL, NULL, T23),
          MkRow(Some(2), Some("L1"), Some(40), Some(50), T24),
          MkRow(Some(1), Some("L2"), Some(40), Some(50), TSlash)}

SeqsUpTo(S, n) == UNION {[1..k -> S] : k \in 0..n}

LabelTables == SeqsUpTo(LabelRows, MaxRows)

GroupTables == SeqsUpTo(GroupRows, MaxRows)

(* One reading per sensor 1..NumSensors: the first a sensors read 25, the  *)
(* next b read 20 and the rest have no temperature.                        *)
RankTables ==
    {[s \in 1..NumSensors |->
        MkRow(Some(s), Some("L1"),
              IF s <= a THEN Some(25) ELSE IF s <= a + b THEN Some(20) ELSE NULL,
              Some(50), T00)] :
        a \in 0..NumSensors, b \in 0..NumSensors}

---------------------------------------------------------------------------
(* Exact averages.                                                         *)

Abs(n) == IF n < 0 THEN -n ELSE n

RECURSIVE GCD(_, _)
GCD(a, b) == IF b = 0 THEN a ELSE GCD(b, a % b)

(* sum / count, as a reduced fraction.                                     *)
Ratio(sum, count) ==
    LET g == GCD(Abs(sum), count)
    IN  <<sum \div g, count \div g>>

RatLess(x, y) == x[1] * y[2] < y[1] * x[2]

Idx(t) == 1..Len(t)

NonNull(t, I, c) == {i \in I : t[i][c] # NULL}

RECURSIVE SumOf(_, _, _)
SumOf(t, I, c) ==
    IF I = {} THEN 0
    ELSE LET i == CHOOSE j \in I : TRUE
         IN  Val(t[i][c]) + SumOf(t, I \ {i}, c)

AvgWithNullsCounted(t, I, c) ==
    IF I = {} THEN NULL
    ELSE Some(Ratio(SumOf(t, NonNull(t, I, c), c), Cardinality(I)))

(* avg(c) over the rows I of t.                                            *)
Avg(t, I, c) ==
    LET J == NonNull(t, I, c)
    IN  IF J = {} THEN NULL
        ELSE Some(Ratio(SumOf(t, J, c), Cardinality(J)))

---------------------------------------------------------------------------
(* orderBy and limit.                                                      *)

(* a sorts strictly before b, descending (nulls last).                     *)
DescBefore(a, b) ==
    /\ a # NULL
    /\ \/ b = NULL
       \/ RatLess(Val(b), Val(a))

(* a sorts strictly before b, ascending (nulls first), on integers.        *)
AscBefore(a, b) ==
    /\ b # NULL
    /\ \/ a = NULL
       \/ Val(a) < Val(b)

(* Every sequence of the rows S in which no row comes after a row it must  *)
(* precede (Prec: the pairs <<a, b>> with a strictly before b).            *)
RECURSIVE Orderings(_, _)
Orderings(S, Prec) ==
    IF S = {} THEN {<<>>}
    ELSE UNION {{<<r>> \o t : t \in Orderings(S \ {r}, Prec)} :
                  r \in {x \in S : \A y \in S : <<y, x>> \notin Prec}}

OrderByDesc(S, c) ==
    Orderings(S, {p \in S \X S : DescBefore(p[1][c], p[2][c])})

OrderByAsc(S, c) ==
    Orderings(S, {p \in S \X S : AscBefore(p[1][c], p[2][c])})

Limit(s, n) == SubSeq(s, 1, IF Len(s) < n THEN Len(s) ELSE n)

---------------------------------------------------------------------------
(* Task 1: the distinct values of the location column.                     *)

DistinctLocations(t) == {t[i].location : i \in Idx(t)}

---------------------------------------------------------------------------
(* Task 2: range labelling and averages by location.                       *)

(* SQL's three-valued logic: Some(TRUE), Some(FALSE), or NULL for unknown. *)
Ge(a, n) == IF a = NULL THEN NULL ELSE Some(Val(a) >= n)

Le(a, n) == IF a = NULL THEN NULL ELSE Some(Val(a) <= n)

And3(p, q) ==
    IF p = Some(FALSE) \/ q = Some(FALSE) THEN Some(FALSE)
    ELSE IF p = NULL \/ q = NULL THEN NULL
    ELSE Some(TRUE)

When(c, a, b) == IF c = Some(TRUE) THEN a ELSE b

RangeStatusExclusive(r) ==
    When(And3(Ge(r.temperature, LowTemp + 1), Le(r.temperature, HighTemp - 1)),
         "in-range", "out-of-range")

RangeStatus(r) ==
    When(And3(Ge(r.temperature, LowTemp), Le(r.temperature, HighTemp)),
         "in-range", "out-of-range")

WithRangeStatus(t) ==
    [i \in Idx(t) |-> t[i] @@ [range_status |-> RangeStatus(t[i])]]

AggByLocation(t) ==
    {[location |-> k,
      avg_temperature |-> Avg(t, {i \in Idx(t) : t[i].location = k}, "temperature"),
      avg_humidity |-> Avg(t, {i \in Idx(t) : t[i].location = k}, "humidity")] :
        k \in {t[i].location : i \in Idx(t)}}

---------------------------------------------------------------------------
(* Task 3: to_timestamp, hour, and averages by hour.                       *)

Digits == <<"0", "1", "2", "3", "4", "5", "6", "7", "8", "9">>

IsDigit(c) == \E d \in 1..10 : Digits[d] = c

DigitVal(c) == (CHOOSE d \in 1..10 : Digits[d] = c) - 1

Num2(s, i) == 10 * DigitVal(s[i]) + DigitVal(s[i + 1])

Num4(s, i) == 100 * Num2(s, i) + Num2(s, i + 2)

(* yyyy-MM-dd HH:mm:ss                                                     *)
MatchesPattern(s) ==
    /\ Len(s) = 19
    /\ s[5] = "-" /\ s[8] = "-" /\ s[11] = " " /\ s[14] = ":" /\ s[17] = ":"
    /\ \A i \in {1, 2, 3, 4, 6, 7, 9, 10, 12, 13, 15, 16, 18, 19} : IsDigit(s[i])

IsLeap(y) == (y % 4 = 0 /\ y % 100 # 0) \/ y % 400 = 0

DaysIn(y, m) ==
    IF m = 2 THEN (IF IsLeap(y) THEN 29 ELSE 28)
    ELSE IF m \in {4, 6, 9, 11} THEN 30 ELSE 31

ToTimestamp(s) ==
    IF /\ MatchesPattern(s)
       /\ Num2(s, 6) \in 1..12
       /\ Num2(s, 9) \in 1..DaysIn(Num4(s, 1), Num2(s, 6))
       /\ Num2(s, 12) \in 0..23
       /\ Num2(s, 15) \in 0..59
       /\ Num2(s, 18) \in 0..59
    THEN Some([year |-> Num4(s, 1), month |-> Num2(s, 6), day |-> Num2(s, 9),
               hour |-> Num2(s, 12), minute |-> Num2(s, 15),
               second |-> Num2(s, 18)])
    ELSE NULL

Hour(ts) == IF ts = NULL THEN NULL ELSE Some(Val(ts).hour)

(* df with the columns timestamp_ts and hour_of_day added.                 *)
WithHour(t) ==
    [i \in Idx(t) |->
        t[i] @@ [timestamp_ts |-> ToTimestamp(t[i].timestamp),
                 hour_of_day |-> Hour(ToTimestamp(t[i].timestamp))]]

AggByHour(t) ==
    {[hour_of_day |-> k,
      avg_temp |-> Avg(t, {i \in Idx(t) : t[i].hour_of_day = k}, "temperature")] :
        k \in {t[i].hour_of_day : i \in Idx(t)}}

---------------------------------------------------------------------------
(* Task 4: sensors ranked by average temperature.                          *)

AggBySensor(t) ==
    {[sensor_id |-> k,
      avg_temp |-> Avg(t, {i \in Idx(t) : t[i].sensor_id = k}, "temperature")] :
        k \in {t[i].sensor_id : i \in Idx(t)}}

DenseRankOver(S, r) ==
    1 + Cardinality({x.avg_temp : x \in {y \in S : DescBefore(y.avg_temp, r.avg_temp)}})

(* rank() over (order by avg_temp desc): one more than the number of rows  *)
(* that sort strictly before r.                                            *)
RankOver(S, r) ==
    1 + Cardinality({x \in S : DescBefore(x.avg_temp, r.avg_temp)})

WithRank(S) == {r @@ [rank_temp |-> Some(RankOver(S, r))] : r \in S}

TopSensorsUnordered(S) == {Limit(s, TopN) : s \in Orderings(S, {})}

TopSensors(S) == {Limit(s, TopN) : s \in OrderByAsc(S, "rank_temp")}

---------------------------------------------------------------------------
(* Task 5: the location x hour pivot and the hottest (location, hour).     *)

PivotRowsShort(t) ==
    {[location |-> l,
      values |-> [i \in 1..(Len(PivotValues) - 1) |->
                    Avg(t, {j \in Idx(t) : /\ t[j].location = l
                                           /\ t[j].hour_of_day = Some(PivotValues[i])},
                        "temperature")]] :
        l \in {t[j].location : j \in Idx(t)}}

(* groupBy(location).pivot(hour_of_day, values).agg(avg(temperature))      *)
PivotRows(t) ==
    {[location |-> l,
      values |-> [i \in 1..Len(PivotValues) |->
                    Avg(t, {j \in Idx(t) : /\ t[j].location = l
                                           /\ t[j].hour_of_day = Some(PivotValues[i])},
                        "temperature")]] :
        l \in {t[j].location : j \in Idx(t)}}

AggByLocationHour(t) ==
    {[location |-> k[1], hour_of_day |-> k[2],
      avg_temp |-> Avg(t, {i \in Idx(t) : /\ t[i].location = k[1]
                                          /\ t[i].hour_of_day = k[2]},
                       "temperature")] :
        k \in {<<t[i].location, t[i].hour_of_day>> : i \in Idx(t)}}

---------------------------------------------------------------------------
(* The script.                                                             *)

InitOutputs ==
    /\ df_filtered = <<>>
    /\ agg_df_sorted = <<>>
    /\ hourly_avg = <<>>
    /\ sensor_ranked = {}
    /\ top_sensors = <<>>
    /\ pivot_df = <<>>
    /\ pivot_long = {}
    /\ max_temp_entry = <<>>
    /\ emitted = {}
    /\ pc = "task2_filter"

Init == df \in LabelTables \cup GroupTables /\ InitOutputs

InitRank == df \in RankTables /\ InitOutputs

(* Tables of up to two rows with every column present and a timestamp     *)
(* that parses.                                                            *)
RerunTables ==
    SeqsUpTo({r \in GroupRows : /\ r.sensor_id # NULL
                                /\ r.location # NULL
                                /\ r.temperature # NULL
                                /\ ToTimestamp(r.timestamp) # NULL}, 2)

InitRerun == df \in RerunTables /\ InitOutputs

Task2Filter ==
    /\ pc = "task2_filter"
    /\ df_filtered' = WithRangeStatus(df)
    /\ pc' = "task2_agg"
    /\ UNCHANGED <<df, agg_df_sorted, hourly_avg, sensor_ranked, top_sensors,
                   pivot_df, pivot_long, max_temp_entry, emitted>>

Task2Agg ==
    /\ pc = "task2_agg"
    /\ agg_df_sorted' \in OrderByDesc(AggByLocation(df), "avg_temperature")
    /\ emitted' = emitted \cup {"task2_output.csv"}
    /\ pc' = "task3"
    /\ UNCHANGED <<df, df_filtered, hourly_avg, sensor_ranked, top_sensors,
                   pivot_df, pivot_long, max_temp_entry>>

Task3Hourly ==
    /\ pc = "task3"
    /\ hourly_avg' \in OrderByAsc(AggByHour(WithHour(df)), "hour_of_day")
    /\ emitted' = emitted \cup {"task3_output.csv"}
    /\ pc' = "task4"
    /\ UNCHANGED <<df, df_filtered, agg_df_sorted, sensor_ranked, top_sensors,
                   pivot_df, pivot_long, max_temp_entry>>

Task4Rank ==
    /\ pc = "task4"
    /\ sensor_ranked' = WithRank(AggBySensor(df))
    /\ top_sensors' \in TopSensors(WithRank(AggBySensor(df)))
    /\ emitted' = emitted \cup {"task4_output.csv"}
    /\ pc' = "task5_pivot"
    /\ UNCHANGED <<df, df_filtered, agg_df_sorted, hourly_avg, pivot_df,
                   pivot_long, max_temp_entry>>

Task5Pivot ==
    /\ pc = "task5_pivot"
    /\ pivot_df' \in Orderings(PivotRows(WithHour(df)), {})
    /\ pc' = "task5_max"
    /\ UNCHANGED <<df, df_filtered, agg_df_sorted, hourly_avg, sensor_ranked,
                   top_sensors, pivot_long, max_temp_entry, emitted>>

Task5Max ==
    /\ pc = "task5_max"
    /\ pivot_long' = AggByLocationHour(WithHour(df))
    /\ max_temp_entry' \in
          {Limit(s, 1) : s \in OrderByDesc(AggByLocationHour(WithHour(df)), "avg_temp")}
    /\ emitted' = emitted \cup {"max_temp_entry", "task5_output.csv"}
    /\ pc' = "stop"
    /\ UNCHANGED <<df, df_filtered, agg_df_sorted, hourly_avg, sensor_ranked,
                   top_sensors, pivot_df>>

Stop ==
    /\ pc = "stop"
    /\ pc' = "done"
    /\ UNCHANGED <<df, df_filtered, agg_df_sorted, hourly_avg, sensor_ranked,
                   top_sensors, pivot_df, pivot_long, max_temp_entry, emitted>>

(* The script is run again on the same rows in another arrival order; the  *)
(* results of the run before are still there until they are overwritten.   *)
Rerun ==
    /\ pc = "done"
    /\ df' \in {[i \in Idx(df) |-> df[p[i]]] : p \in Orderings(Idx(df), {})}
    /\ pc' = "task2_filter"
    /\ UNCHANGED <<df_filtered, agg_df_sorted, hourly_avg, sensor_ranked,
                   top_sensors, pivot_df, pivot_long, max_temp_entry, emitted>>

Next ==
    \/ Task2Filter
    \/ Task2Agg
    \/ Task3Hourly
    \/ Task4Rank
    \/ Task5Pivot
    \/ Task5Max
    \/ Stop

NextRerun ==
    \/ Task2Filter
    \/ Task2Agg
    \/ Task3Hourly
    \/ Task4Rank
    \/ Task5Pivot
    \/ Task5Max
    \/ Stop
    \/ Rerun

Spec == Init /\ [][Next]_vars

SpecRank == InitRank /\ [][Next]_vars

SpecRerun == InitRerun /\ [][NextRerun]_vars

---------------------------------------------------------------------------
(* What the claims speak of.                                               *)

(* The hour each timestamp string of the inputs stands for, read off the   *)
(* string by hand: null for the strings that are no yyyy-MM-dd HH:mm:ss.   *)
InputHour(ts) ==
    IF ts = T00 THEN Some(0) ELSE IF ts = T23 THEN Some(23) ELSE NULL

Range(s) == {s[i] : i \in Idx(s)}

Min(a, b) == IF a < b THEN a ELSE b

Task4Done == pc \in {"task5_pivot", "task5_max", "stop", "done"}

PivotDone == pc \in {"task5_max", "stop", "done"}

(* Ascending order of location names.                                      *)
LocIndex(l) == CHOOSE i \in 1..Len(LocationOrder) : LocationOrder[i] = l

LocBefore(a, b) == LocIndex(Val(a)) < LocIndex(Val(b))

---------------------------------------------------------------------------
(* C1: the ranked sensors come out in descending avg_temp order with       *)
(* competition ranks: the first row has rank 1, a row whose avg_temp       *)
(* equals the previous row's has that row's rank, and a row whose avg_temp *)
(* differs has its 1-based position as rank; over the whole ranked table,  *)
(* equal avg_temp means equal rank and a higher avg_temp a smaller rank.   *)
C1_CompetitionRank ==
    Task4Done =>
        /\ \A i \in Idx(top_sensors) :
              /\ i = 1 => top_sensors[i].rank_temp = Some(1)
              /\ (i > 1 /\ top_sensors[i].avg_temp = top_sensors[i - 1].avg_temp)
                    => top_sensors[i].rank_temp = top_sensors[i - 1].rank_temp
              /\ (i > 1 /\ top_sensors[i].avg_temp # top_sensors[i - 1].avg_temp)
                    => /\ top_sensors[i].rank_temp = Some(i)
                       /\ DescBefore(top_sensors[i - 1].avg_temp,
                                     top_sensors[i].avg_temp)
        /\ \A a \in sensor_ranked : \A b \in sensor_ranked :
              /\ a.avg_temp = b.avg_temp => a.rank_temp = b.rank_temp
              /\ DescBefore(a.avg_temp, b.avg_temp)
                    => Val(a.rank_temp) < Val(b.rank_temp)

(* Two sensors tied at the top and a lower one: ranks 1, 1, 3.             *)
C1_Witness ==
    /\ Task4Done
    /\ Len(top_sensors) >= 3
    /\ top_sensors[1].avg_temp = top_sensors[2].avg_temp
    /\ top_sensors[2].avg_temp # top_sensors[3].avg_temp
    /\ <<top_sensors[1].rank_temp, top_sensors[2].rank_temp,
         top_sensors[3].rank_temp>> = <<Some(1), Some(1), Some(3)>>

---------------------------------------------------------------------------
(* C2: a row whose timestamp does not parse is in no row of the hourly     *)
(* aggregation (hourly_avg has no row with a null hour_of_day) and in no   *)
(* cell of the pivot, and is still in the range-labelled output.           *)
C2_UnparseableExcluded ==
    pc = "done" =>
        /\ \A i \in Idx(hourly_avg) : hourly_avg[i].hour_of_day # NULL
        /\ \A i \in Idx(pivot_df) : \A h \in 1..Len(pivot_df[i].values) :
              pivot_df[i].values[h] # NULL
                 => \E j \in Idx(df) : /\ df[j].location = pivot_df[i].location
                                       /\ InputHour(df[j].timestamp) = Some(h - 1)
        /\ \A j \in Idx(df) :
              /\ j \in Idx(df_filtered)
              /\ df_filtered[j].timestamp = df[j].timestamp

---------------------------------------------------------------------------
(* C3: the pivot has 25 columns, location and then one per hour 0..23 in   *)
(* ascending order, and one row per distinct value of the location column; *)
(* a cell (location, h) is non-null only if some input row has that        *)
(* location and hour h.                                                    *)
C3_PivotShape ==
    PivotDone =>
        /\ \A i \in Idx(pivot_df) : 1 + Len(pivot_df[i].values) = 25
        /\ Len(pivot_df) = Cardinality(DistinctLocations(df))
        /\ {pivot_df[i].location : i \in Idx(pivot_df)} = DistinctLocations(df)
        /\ \A i \in Idx(pivot_df) : \A h \in 0..23 :
              pivot_df[i].values[h + 1] # NULL
                 => \E j \in Idx(df) : /\ df[j].location = pivot_df[i].location
                                       /\ InputHour(df[j].timestamp) = Some(h)
                                       /\ df[j].temperature # NULL

(* Two locations, a cell of hour 23 that is filled and cells that are not. *)
C3_Witness ==
    /\ PivotDone
    /\ Len(pivot_df) >= 2
    /\ \E i \in Idx(pivot_df) : /\ pivot_df[i].values[24] # NULL
                                /\ pivot_df[i].values[1] = NULL
    /\ \E i \in Idx(pivot_df) : \A h \in 1..24 : pivot_df[i].values[h] = NULL

---------------------------------------------------------------------------
(* C4: range labelling keeps every input row, in place and unchanged, and  *)
(* adds the one column range_status, which is "in-range" exactly when the  *)
(* temperature is not null and 18 <= temperature <= 30, and                *)
(* "out-of-range" otherwise.                                               *)
C4_RangeLabel ==
    pc # "task2_filter" =>
        /\ Len(df_filtered) = Len(df)
        /\ \A i \in Idx(df) :
              /\ DOMAIN df_filtered[i] = DOMAIN df[i] \cup {"range_status"}
              /\ \A c \in DOMAIN df[i] : df_filtered[i][c] = df[i][c]
              /\ df_filtered[i].range_status \in {"in-range", "out-of-range"}
              /\ df_filtered[i].range_status = "in-range"
                    <=> /\ df[i].temperature # NULL
                        /\ 18 <= Val(df[i].temperature)
                        /\ Val(df[i].temperature) <= 30

(* A null temperature labelled out-of-range beside the two bounds, 18 and  *)
(* 30, labelled in-range.                                                  *)
C4_Witness ==
    /\ pc # "task2_filter"
    /\ \E i \in Idx(df_filtered) : /\ df_filtered[i].temperature = NULL
                                   /\ df_filtered[i].range_status = "out-of-range"
    /\ \E i \in Idx(df_filtered) : /\ df_filtered[i].temperature = Some(18)
                                   /\ df_filtered[i].range_status = "in-range"
    /\ \E i \in Idx(df_filtered) : /\ df_filtered[i].temperature = Some(30)
                                   /\ df_filtered[i].range_status = "in-range"

---------------------------------------------------------------------------
(* C5: on a non-empty input, each grouped aggregation has one row per      *)
(* distinct non-null key: rows with a null key component form no bucket.   *)
C5_OneRowPerNonNullKey ==
    (pc = "done" /\ Len(df) > 0) =>
        /\ Len(agg_df_sorted) = Cardinality(DistinctLocations(df) \ {NULL})
        /\ Cardinality(sensor_ranked)
              = Cardinality({df[i].sensor_id : i \in Idx(df)} \ {NULL})
        /\ Len(hourly_avg)
              = Cardinality({InputHour(df[i].timestamp) : i \in Idx(df)} \ {NULL})
        /\ Cardinality(pivot_long)
              = Cardinality({k \in {<<df[i].location, InputHour(df[i].timestamp)>> :
                                       i \in Idx(df)} :
                                k[1] # NULL /\ k[2] # NULL})

---------------------------------------------------------------------------
(* C6: on the same rows in another arrival order every emitted result is   *)
(* the same sequence of rows: a result, once emitted, is emitted unchanged *)
(* by every later run.                                                     *)
C6_Deterministic ==
    [][/\ "task2_output.csv" \in emitted => agg_df_sorted' = agg_df_sorted
       /\ "task3_output.csv" \in emitted => hourly_avg' = hourly_avg
       /\ "task4_output.csv" \in emitted => top_sensors' = top_sensors
       /\ "task5_output.csv" \in emitted => pivot_df' = pivot_df
       /\ "max_temp_entry" \in emitted => max_temp_entry' = max_temp_entry]_vars

---------------------------------------------------------------------------
(* C7: however the rows are split into three partitions, reducing each     *)
(* partition to a (sum, count) pair per location and merging the pairs in  *)
(* any order and grouping gives the avg_temperature of the location        *)
(* aggregation.  (p ranges over every assignment of rows to the partitions *)
(* 1, 2, 3, so every order of the three partitions is some p.)             *)

(* The (sum, count) of the non-null temperatures of location k in rows I.  *)
Partial(t, I, k) ==
    LET J == NonNull(t, {i \in I : t[i].location = k}, "temperature")
    IN  <<SumOf(t, J, "temperature"), Cardinality(J)>>

MergePair(x, y) == <<x[1] + y[1], x[2] + y[2]>>

Finish(x) == IF x[2] = 0 THEN NULL ELSE Some(Ratio(x[1], x[2]))

(* The mean of two partial averages.                                       *)
MergeAverages(x, y) ==
    Some(Ratio(Val(x)[1] * Val(y)[2] + Val(y)[1] * Val(x)[2],
               2 * Val(x)[2] * Val(y)[2]))

C7_PartitionIndependent ==
    pc = "task3" =>
        \A p \in [Idx(df) -> 1..3] : \A r \in Range(agg_df_sorted) :
            LET P(n) == Partial(df, {i \in Idx(df) : p[i] = n}, r.location)
            IN  /\ Finish(MergePair(MergePair(P(1), P(2)), P(3)))
                      = r.avg_temperature
                /\ Finish(MergePair(P(1), MergePair(P(2), P(3))))
                      = r.avg_temperature
                /\ Finish(MergePair(P(3), MergePair(P(2), P(1))))
                      = r.avg_temperature

(* A split whose partial averages, merged, miss the average that the       *)
(* merged (sum, count) pairs give.                                         *)
C7_Witness ==
    /\ pc = "task3"
    /\ \E p \in [Idx(df) -> 1..2] : \E r \in Range(agg_df_sorted) :
          LET P(n) == Partial(df, {i \in Idx(df) : p[i] = n}, r.location)
          IN  /\ P(1)[2] > 0
              /\ P(2)[2] > 0
              /\ Finish(MergePair(P(1), P(2))) = r.avg_temperature
              /\ MergeAverages(Finish(P(1)), Finish(P(2))) # r.avg_temperature

---------------------------------------------------------------------------
(* C8: the pivot's rows are in ascending order of location: each row's     *)
(* location is strictly greater than the row before's (stated for the rows *)
(* that have a location).                                                  *)
C8_PivotAscending ==
    PivotDone =>
        \A i \in Idx(pivot_df) :
            (/\ i > 1
             /\ pivot_df[i - 1].location # NULL
             /\ pivot_df[i].location # NULL)
                => LocBefore(pivot_df[i - 1].location, pivot_df[i].location)

---------------------------------------------------------------------------
(* C9: the top-5 result is a prefix of the ranked sensors in rank order:   *)
(* it has min(5, number of sensors) distinct rows of the ranked table, in  *)
(* non-decreasing rank_temp and non-increasing avg_temp, and no sensor     *)
(* left out has a smaller rank or a higher avg_temp than one included.     *)
C9_TopIsPrefix ==
    Task4Done =>
        /\ Len(top_sensors) = Min(5, Cardinality(sensor_ranked))
        /\ Range(top_sensors) \subseteq sensor_ranked
        /\ Cardinality(Range(top_sensors)) = Len(top_sensors)
        /\ \A i \in Idx(top_sensors) : \A j \in Idx(top_sensors) :
              i < j => /\ Val(top_sensors[i].rank_temp) <= Val(top_sensors[j].rank_temp)
                       /\ ~DescBefore(top_sensors[j].avg_temp, top_sensors[i].avg_temp)
        /\ \A r \in sensor_ranked \ Range(top_sensors) : \A i \in Idx(top_sensors) :
              /\ Val(top_sensors[i].rank_temp) <= Val(r.rank_temp)
              /\ ~DescBefore(r.avg_temp, top_sensors[i].avg_temp)

(* More than five sensors: one is left out, below one that is included.    *)
C9_Witness ==
    /\ Task4Done
    /\ Len(top_sensors) = 5
    /\ \E r \in sensor_ranked \ Range(top_sensors) :
          DescBefore(top_sensors[5].avg_temp, r.avg_temp)

---------------------------------------------------------------------------
(* C10: when some row has a location and a timestamp that parses, the one  *)
(* row of max_temp_entry names a (location, hour_of_day) with hour_of_day  *)
(* in 0..23 whose avg_temp is the pivot's cell for that location and hour  *)
(* and is the maximum of the pivot's non-null cells.                       *)
C10_MaxEntryInPivot ==
    (/\ pc = "done"
     /\ \E j \in Idx(df) : /\ df[j].location # NULL
                           /\ InputHour(df[j].timestamp) # NULL) =>
        /\ Len(max_temp_entry) = 1
        /\ max_temp_entry[1].hour_of_day # NULL
        /\ Val(max_temp_entry[1].hour_of_day) \in 0..23
        /\ \E i \in Idx(pivot_df) :
              /\ pivot_df[i].location = max_temp_entry[1].location
              /\ pivot_df[i].values[Val(max_temp_entry[1].hour_of_day) + 1]
                    = max_temp_entry[1].avg_temp
        /\ \A i \in Idx(pivot_df) : \A h \in 1..Len(pivot_df[i].values) :
              pivot_df[i].values[h] # NULL
                 => /\ max_temp_entry[1].avg_temp # NULL
                    /\ ~RatLess(Val(max_temp_entry[1].avg_temp),
                                Val(pivot_df[i].values[h]))

===========================================================================
